---- MODULE Spec2Model ----
(***************************************************************************)
(* The KV-backed TranscriptionRepository                                   *)
(* (src/src/repositories/transcription.repository.ts, lines 18-241):       *)
(* primary records under 'transcription:<id>', one index list per owner    *)
(* under 'user_transcriptions:<userId>'.                                   *)
(*                                                                         *)
(* Every await of the code is one atomic backend call.  A process runs one *)
(* repository method at a time; its program counter names the next await.  *)
(* Spec lets one process run (sequential use of the repository), SpecConc  *)
(* lets two processes interleave at the awaits.                            *)
(* SpecService is the Redis-backed TranscriptionService of the same file   *)
(* (lines 246-391), with kv as the Redis keyspace.                         *)
(*                                                                         *)
(* Values: every field value of a record is a string (numbers in their     *)
(* decimal rendering, as JSON writes them).  Time is counted in units of   *)
(* one TTL period (30 days).                                               *)
(***************************************************************************)
EXTENDS Integers, Sequences, FiniteSets, TLC

\* ------------------------------------------------------------------ bounds
MaxClock == 2      \* the clock runs over 0..MaxClock
NumRand == 2       \* number of distinct Math.random() suffixes
MaxRecords == 2    \* transcribeAudio is called while the store holds fewer records
MaxFailures == 1   \* number of backend calls that fail
NumUuids == 2      \* number of distinct uuidv4() values

\* --------------------------------------------------------------- constants
TTL == 1                              \* 30 * 24 * 60 * 60 * 1000 ms = one time unit
maxSize == 25 * 1024 * 1024           \* 25MB
TRANSCRIPTION_PREFIX == "transcription:"
USER_TRANSCRIPTIONS_PREFIX == "user_transcriptions:"
allowedTypes ==
    {"audio/mpeg", "audio/wav", "audio/mp3", "audio/m4a", "audio/ogg",
     "audio/webm", "audio/x-mpeg-3", "audio/x-wav"}

Procs == {1, 2}
SeqProcs == {1}
Users == {"u1", "u2"}

\* ------------------------------------------------------------ JS values
\* undefined, and an absent key of an object (both read as undefined and are
\* both dropped by JSON.stringify).
Undefined == "undefined"

\* interface Transcription: the keys of a record object.
Keys ==
    {"transcriptionId", "userId", "originalFilename", "fileSize", "mimeType",
     "duration", "text", "confidence", "status", "createdAt", "expiresAt"}

\* interface UpdateTranscriptionInput: the keys a patch is declared to hold.
UpdateKeys == {"status", "text", "confidence"}

\* The code units the model's strings are made of, in code-unit order.
CodeUnits ==
    <<"0", "1", "2", "3", "4", "5", "6", "7", "8", "9", ":", "T", "Z", "_",
      "a", "b", "c", "d", "e", "f", "g", "h", "i", "j", "k", "l", "m", "n",
      "o", "p", "q", "r", "s", "t", "u", "v", "w", "x", "y", "z">>

CodeUnit(c) == CHOOSE i \in 1..Len(CodeUnits) : CodeUnits[i] = c

\* A comparison that takes equal strings as less: s <= t.
RECURSIVE StringNotGreater(_, _)
StringNotGreater(s, t) ==
    IF Len(s) = 0 \/ Len(t) = 0 THEN Len(s) <= Len(t)
    ELSE LET a == SubSeq(s, 1, 1)
             b == SubSeq(t, 1, 1)
         IN  IF a = b
             THEN StringNotGreater(SubSeq(s, 2, Len(s)), SubSeq(t, 2, Len(t)))
             ELSE CodeUnit(a) < CodeUnit(b)

\* s < t on strings: JS compares code unit by code unit.
RECURSIVE StringLess(_, _)
StringLess(s, t) ==
    IF Len(s) = 0 \/ Len(t) = 0 THEN Len(s) < Len(t)
    ELSE LET a == SubSeq(s, 1, 1)
             b == SubSeq(t, 1, 1)
         IN  IF a = b THEN StringLess(SubSeq(s, 2, Len(s)), SubSeq(t, 2, Len(t)))
             ELSE CodeUnit(a) < CodeUnit(b)

\* Date.prototype.toISOString: a fixed-width rendering, so that the string
\* order of two timestamps is their time order.
toISOString(t) ==
    "T" \o CodeUnits[((t \div 10) % 10) + 1] \o CodeUnits[(t % 10) + 1] \o "Z"

\* new Date(s).getTime() of a string toISOString produced.
getTime(s) ==
    (CodeUnit(SubSeq(s, 2, 2)) - 1) * 10 + (CodeUnit(SubSeq(s, 3, 3)) - 1)

\* A JSON.stringify that loses the member "status".
JSONstringifyWithoutStatus(o) ==
    [type |-> "object",
     members |-> [k \in {x \in DOMAIN o : o[x] # Undefined /\ x # "status"} |-> o[k]]]

\* JSON.stringify of an object: the members whose value is not undefined.
JSONstringifyObject(o) ==
    [type |-> "object",
     members |-> [k \in {x \in DOMAIN o : o[x] # Undefined} |-> o[k]]]

\* JSON.stringify of an array of strings.
JSONstringifyArray(a) == [type |-> "array", elements |-> a]

\* A stored text that is not JSON: JSON.parse throws SyntaxError on it.
Garbage == [type |-> "garbage"]

\* JSON.parse(...) as Transcription: a key the text lacks reads as undefined.
JSONparseObject(s) ==
    [k \in Keys |-> IF k \in DOMAIN s.members THEN s.members[k] ELSE Undefined]

\* JSON.parse(...) as string[]
JSONparseArray(s) == s.elements

\* { ...a, ...b }: every own key of b, also one whose value is undefined,
\* replaces a's.
Spread(a, b) ==
    [k \in Keys |-> IF k \in DOMAIN b THEN b[k] ELSE a[k]]

\* ------------------------------------------------------------ the KvCache
\* kv.get of a missing key
Null == [type |-> "null"]

KvGet(store, key) == IF key \in DOMAIN store THEN store[key] ELSE Null

KvPut(store, key, value) ==
    [k \in DOMAIN store \cup {key} |-> IF k = key THEN value ELSE store[k]]

\* A kv.delete that deletes nothing.
KvDeleteNothing(store, key) == store

KvDelete(store, key) == [k \in DOMAIN store \ {key} |-> store[k]]

HasPrefix(key, prefix) ==
    Len(key) >= Len(prefix) /\ SubSeq(key, 1, Len(prefix)) = prefix

\* kv.list({ prefix }): the names of the keys with the prefix.
KvList(store, prefix) == {k \in DOMAIN store : HasPrefix(k, prefix)}

\* ------------------------------------------------- repository, pure parts
\* One list key for all owners.
sharedTranscriptionsKey(userId) == USER_TRANSCRIPTIONS_PREFIX

transcriptionKey(id) == TRANSCRIPTION_PREFIX \o id

userTranscriptionsKey(userId) == USER_TRANSCRIPTIONS_PREFIX \o userId

\* Math.random().toString(36).substr(2, 9): one of NumRand suffixes.
RandomSuffixes == {"r" \o ToString(i) : i \in 1..NumRand}

generateId(now, suffix) == "trans_" \o ToString(now) \o "_" \o suffix

\* !x of a string
Falsy(x) == x = "" \/ x = Undefined

\* The validation without the size limit.
ValidationWithoutSizeLimit(input) ==
    IF input.audioLength = 0
    THEN "Audio buffer is required and cannot be empty"
    ELSE IF Falsy(input.userId) THEN "User ID is required"
    ELSE IF Falsy(input.filename) THEN "Filename is required"
    ELSE IF Falsy(input.mimeType) THEN "MIME type is required"
    ELSE IF input.mimeType \notin allowedTypes
    THEN "Invalid file type. Allowed types: mp3, wav, m4a, ogg, webm"
    ELSE ""

\* The validation of transcribeAudio, in the code's order: the message of the
\* first check that fails, "" when all pass.  audioLength is
\* audioBuffer.length.
ValidationMessage(input) ==
    IF input.audioLength = 0
    THEN "Audio buffer is required and cannot be empty"
    ELSE IF Falsy(input.userId) THEN "User ID is required"
    ELSE IF Falsy(input.filename) THEN "Filename is required"
    ELSE IF Falsy(input.mimeType) THEN "MIME type is required"
    ELSE IF input.audioLength > maxSize
    THEN "File size exceeds maximum limit of 25MB"
    ELSE IF input.mimeType \notin allowedTypes
    THEN "Invalid file type. Allowed types: mp3, wav, m4a, ogg, webm"
    ELSE ""

transcriptionText(input) ==
    "Transcribed text for " \o input.filename
        \o " (" \o ToString(input.audioLength) \o " bytes)"

\* const transcription: Transcription = { ... }; now is the clock reading of
\* lines 86, 87 and 31, which fall into one time unit.
NewTranscription(input, id, now) ==
    [transcriptionId |-> id,
     userId |-> input.userId,
     originalFilename |-> input.filename,
     fileSize |-> ToString(input.audioLength),
     mimeType |-> input.mimeType,
     duration |-> Undefined,
     text |-> transcriptionText(input),
     confidence |-> "0.95",
     status |-> "completed",
     createdAt |-> toISOString(now),
     expiresAt |-> toISOString(now + TTL)]

TranscribeAudioResponse(t) ==
    [text |-> t.text, transcriptionId |-> t.transcriptionId,
     fileSize |-> t.fileSize, mimeType |-> t.mimeType]

NoRecord == [k \in Keys |-> Undefined]

\* A getById that returns an empty record for a missing key.
GetByIdOrEmpty(store, id) ==
    LET data == KvGet(store, transcriptionKey(id))
    IN  IF data = Null
        THEN [error |-> "", value |-> NoRecord]
        ELSE IF data = Garbage
        THEN [error |-> "SyntaxError", value |-> NoRecord]
        ELSE [error |-> "", value |-> JSONparseObject(data)]

\* getById on a store: the error thrown ("" for none) and the record.  The
\* SyntaxError of JSON.parse (line 134) is not caught.
GetById(store, id) ==
    LET data == KvGet(store, transcriptionKey(id))
    IN  IF data = Null
        THEN [error |-> "NotFoundError", value |-> NoRecord]
        ELSE IF data = Garbage
        THEN [error |-> "SyntaxError", value |-> NoRecord]
        ELSE [error |-> "", value |-> JSONparseObject(data)]

\* An update that restores no field after the spread.
UpdatedTranscriptionUnprotected(existing, updates) == Spread(existing, updates)

\* const updatedTranscription = { ...existing, ...updates, <seven fields> }
UpdatedTranscription(existing, updates) ==
    LET spread == Spread(existing, updates)
    IN  [spread EXCEPT
            !.transcriptionId = existing.transcriptionId,
            !.userId = existing.userId,
            !.originalFilename = existing.originalFilename,
            !.fileSize = existing.fileSize,
            !.mimeType = existing.mimeType,
            !.createdAt = existing.createdAt,
            !.expiresAt = existing.expiresAt]

\* A push that appends nothing.
PushNothing(data, id) == IF data = Null THEN << >> ELSE JSONparseArray(data)

\* userTranscriptions.push(transcriptionId) on the list read (or [])
PushId(data, id) ==
    Append(IF data = Null THEN << >> ELSE JSONparseArray(data), id)

\* A filter that keeps the id and removes the others.
FilterOthers(data, id) == SelectSeq(JSONparseArray(data), LAMBDA x : x = id)

\* A filter that removes nothing.
FilterNothing(data, id) == JSONparseArray(data)

\* userTranscriptions.filter(id => id !== transcriptionId)
FilterId(data, id) == SelectSeq(JSONparseArray(data), LAMBDA x : x # id)

\* Array.prototype.sort with (a, b) => time(b) - time(a): stable, newest
\* first.  Insert puts t behind every element that is not older than t.
RECURSIVE Insert(_, _)
Insert(sorted, t) ==
    IF sorted = << >> THEN <<t>>
    ELSE IF getTime(Head(sorted).createdAt) >= getTime(t.createdAt)
         THEN <<Head(sorted)>> \o Insert(Tail(sorted), t)
         ELSE <<t>> \o sorted

RECURSIVE SortNewestFirst(_)
SortNewestFirst(ts) ==
    IF ts = << >> THEN << >>
    ELSE Insert(SortNewestFirst(SubSeq(ts, 1, Len(ts) - 1)), ts[Len(ts)])

\* The for loop of listByUser: the records of the ids that getById finds.
RECURSIVE FetchAll(_, _)
FetchAll(store, ids) ==
    IF ids = << >> THEN << >>
    ELSE LET got == GetById(store, Head(ids))
         IN  (IF got.error = "" THEN <<got.value>> ELSE << >>)
                 \o FetchAll(store, Tail(ids))

\* A listByUser that throws when a record of the list cannot be read.
ListByUserStrict(store, userId) ==
    IF Falsy(userId) THEN [error |-> "ValidationError", value |-> << >>]
    ELSE LET data == KvGet(store, userTranscriptionsKey(userId))
         IN  IF data = Null THEN [error |-> "", value |-> << >>]
             ELSE IF \E i \in 1..Len(JSONparseArray(data)) :
                        GetById(store, JSONparseArray(data)[i]).error # ""
             THEN [error |-> "NotFoundError", value |-> << >>]
             ELSE [error |-> "",
                   value |-> SortNewestFirst(FetchAll(store, JSONparseArray(data)))]

\* listByUser on a store: the error thrown ("" for none) and the list.
ListByUser(store, userId) ==
    IF Falsy(userId) THEN [error |-> "ValidationError", value |-> << >>]
    ELSE LET data == KvGet(store, userTranscriptionsKey(userId))
         IN  IF data = Null THEN [error |-> "", value |-> << >>]
             ELSE [error |-> "",
                   value |-> SortNewestFirst(FetchAll(store, JSONparseArray(data)))]

\* result.keys of kv.list: the key names in code-unit order.
RECURSIVE SortedKeys(_)
SortedKeys(keys) ==
    IF keys = {} THEN << >>
    ELSE LET first == CHOOSE k \in keys : \A o \in keys \ {k} : StringLess(k, o)
         IN  <<first>> \o SortedKeys(keys \ {first})

\* await this.kv.put(transcriptionKey, JSON.stringify(transcription))
PutTranscription(store, t) ==
    KvPut(store, transcriptionKey(t.transcriptionId), JSONstringifyObject(t))

\* await this.kv.put(userTranscriptionsKey, JSON.stringify(list))
PutUserTranscriptions(store, userId, list) ==
    KvPut(store, userTranscriptionsKey(userId), JSONstringifyArray(list))

\* ------------------------------------------------------------------ inputs
ValidInputs ==
    [audioLength : {1}, userId : Users, filename : {"a.wav"}, mimeType : {"audio/wav"}]

\* Valid inputs, and inputs that fail one check each.
CreateInputs ==
    ValidInputs \cup
    {[i EXCEPT !.audioLength = 0] : i \in ValidInputs} \cup
    {[i EXCEPT !.audioLength = maxSize + 1] : i \in ValidInputs} \cup
    {[i EXCEPT !.userId = ""] : i \in ValidInputs} \cup
    {[i EXCEPT !.filename = ""] : i \in ValidInputs} \cup
    {[i EXCEPT !.mimeType = ""] : i \in ValidInputs} \cup
    {[i EXCEPT !.mimeType = "video/mp4"] : i \in ValidInputs}

AllIds == {generateId(t, x) : t \in 0..MaxClock, x \in RandomSuffixes}

IdInputs == AllIds \cup {"trans_unknown"}

\* The patch handed to update: a key of UpdateTranscriptionInput, and keys
\* outside it (the parameter's type is not checked at run time).
Patches ==
    {[status |-> "failed", duration |-> "5", userId |-> "u2",
      createdAt |-> toISOString(99)]}

\* ------------------------------------------------------------------- state
VARIABLES
    kv,       \* the KvCache: key name -> stored JSON text
    clock,    \* Date.now()
    pc,       \* per process: the await it is at, "idle" between calls
    frame,    \* per process: the locals of the running method
    result,   \* per process: what its last completed call returned or threw
    hist      \* history, read by the properties only

vars == <<kv, clock, pc, frame, result, hist>>

IdleFrame ==
    [op |-> "none",       \* the method running
     id |-> "",           \* transcriptionId
     rec |-> NoRecord,    \* transcription / updatedTranscription
     data |-> Null,       \* the text the last kv.get returned
     keys |-> << >>,      \* cleanupExpired: result.keys still to visit
     count |-> 0,         \* cleanupExpired: deletedCount
     now |-> ""]          \* cleanupExpired: now

\* What a call returns is held as an object: a response or a record as it
\* is, an array as its elements, a number as a count, nothing as Void.
Void == [void |-> TRUE]

ArrayOf(list) == [elements |-> list]

CountOf(n) == [count |-> n]

NoResult == [op |-> "none", error |-> "", value |-> Void, record |-> NoRecord]

Returned(op, value) == [op |-> op, error |-> "", value |-> value, record |-> NoRecord]

Threw(op, error) ==
    [op |-> op, error |-> error, value |-> Void, record |-> NoRecord]

EmptyStore == [k \in {} |-> Null]

\* A group of calls: the calls in flight from a moment no call is in flight
\* to the next such moment.  Its history is kept until the caller of its last
\* call has taken the result.
NoHistory ==
    [swept |-> "",        \* now of the sweep just completed, "" if none
     repeat |-> FALSE,    \* the sweep of the group repeats the one just completed
     base |-> EmptyStore, \* kv when the group began
     ops |-> << >>,       \* the calls of the group
     reused |-> FALSE,    \* in the group, generateId returned an id in use
     stale |-> FALSE,     \* in the group, a put replaced a value other than the one read
     seen |-> {},         \* sweep: the keys visited
     caught |-> {},       \* sweep: the keys whose visit ended at the catch of line 234
     deleted |-> {},      \* sweep: the ids whose delete returned
     elsewhere |-> {},    \* sweep: the ids another client deleted meanwhile
     failures |-> 0]      \* the backend calls that have failed so far

Init ==
    /\ kv = EmptyStore
    /\ clock = 0
    /\ pc = [p \in Procs |-> "idle"]
    /\ frame = [p \in Procs |-> IdleFrame]
    /\ result = [p \in Procs |-> NoResult]
    /\ hist = NoHistory

\* A process is in a call from the call's first await to its return.
InCall(p) == pc[p] \notin {"idle", "returned"}

AllIdle == \A p \in Procs : ~InCall(p)

\* The ids of the primary keys of a store, and the list it holds for an owner.
StoredIds(store) ==
    {SubSeq(k, Len(TRANSCRIPTION_PREFIX) + 1, Len(k)) :
        k \in KvList(store, TRANSCRIPTION_PREFIX)}

IndexOf(store, userId) ==
    IF userTranscriptionsKey(userId) \in DOMAIN store
    THEN JSONparseArray(store[userTranscriptionsKey(userId)])
    ELSE << >>

Occurrences(list, id) == Cardinality({i \in 1..Len(list) : list[i] = id})

\* The size the bound MaxRecords limits: primary keys, or entries of a list.
StoredCount ==
    LET longest == CHOOSE n \in {Len(IndexOf(kv, u)) : u \in Users} :
                        \A u \in Users : Len(IndexOf(kv, u)) <= n
        stored == Cardinality(KvList(kv, TRANSCRIPTION_PREFIX))
    IN  IF stored >= longest THEN stored ELSE longest

\* An id that has a primary key or an entry in a list.
InUse(store, id) ==
    \/ transcriptionKey(id) \in DOMAIN store
    \/ \E u \in Users : Occurrences(IndexOf(store, u), id) > 0

\* A call starts: it joins the group of calls in flight (a new group when
\* none is), and it ends the "sweep just completed" window.
Started(h, op) ==
    [h EXCEPT !.swept = "",
              !.repeat = FALSE,
              !.base = IF AllIdle THEN kv ELSE h.base,
              !.ops = Append(h.ops, op)]

\* The caller takes a result: the group is over when no call is in flight.
Ended(h) ==
    IF AllIdle
    THEN [h EXCEPT !.repeat = FALSE, !.base = EmptyStore, !.ops = << >>,
                   !.reused = FALSE, !.stale = FALSE,
                   !.seen = {}, !.caught = {}, !.deleted = {},
                   !.elsewhere = {}]
    ELSE h

\* The put p is about to make replaces a value other than the one p read: a
\* compare-and-swap would fail.
StalePut(p) ==
    \/ /\ pc[p] \in {"t_putIndex", "d_putIndex"}
       /\ KvGet(kv, userTranscriptionsKey(frame[p].rec.userId)) # frame[p].data
    \/ /\ pc[p] = "u_put"
       /\ KvGet(kv, transcriptionKey(frame[p].id)) # frame[p].data

Wrote(h, p) == [h EXCEPT !.stale = h.stale \/ StalePut(p)]

\* A caller takes a result at once: before any other step is taken, and
\* before time passes.
NoneReturned == \A p \in Procs : pc[p] # "returned"

\* p is at the await `label`.
At(p, label) == pc[p] = label /\ NoneReturned

\* A caller may call when it is idle.  Calls come at most two at a time, and
\* the second caller is the one that calls into a call of the first.
CanCall(p) ==
    /\ At(p, "idle")
    /\ Len(hist.ops) < 2
    /\ p = 1 \/ InCall(1)

\* A call that reads only: it ends the "sweep just completed" window.
Observed(h) == [h EXCEPT !.swept = "", !.repeat = FALSE]

\* The call returns or throws r.
Return(p, r) ==
    /\ result' = [result EXCEPT ![p] = r]
    /\ pc' = [pc EXCEPT ![p] = "returned"]
    /\ frame' = [frame EXCEPT ![p] = IdleFrame]

\* The caller has taken the result and is free to make its next call.
Resume(p) ==
    /\ pc[p] = "returned"
    /\ pc' = [pc EXCEPT ![p] = "idle"]
    /\ result' = [result EXCEPT ![p] = NoResult]
    /\ hist' = Ended(hist)
    /\ UNCHANGED <<kv, clock, frame>>

\* The call goes on to its next await; its promise is pending.
Goto(p, label, f) ==
    /\ pc' = [pc EXCEPT ![p] = label]
    /\ frame' = [frame EXCEPT ![p] = f]
    /\ result' = [result EXCEPT ![p] = NoResult]

\* ------------------------------------------------------- transcribeAudio
\* Lines 39-106: validation, the record, and the put of the primary key.
transcribeAudio(p, input) ==
    /\ CanCall(p)
    /\ IF ValidationMessage(input) # ""
       THEN /\ Return(p, Threw("transcribeAudio", "ValidationError"))
            /\ hist' = Observed(hist)
            /\ UNCHANGED <<kv, clock>>
       ELSE \E suffix \in RandomSuffixes :
            LET id == generateId(clock, suffix)
                t == NewTranscription(input, id, clock)
            IN  /\ StoredCount < MaxRecords
                /\ kv' = PutTranscription(kv, t)
                /\ UNCHANGED clock
                /\ Goto(p, "t_getIndex",
                        [IdleFrame EXCEPT !.op = "transcribeAudio", !.id = id, !.rec = t])
                /\ hist' = [Started(hist, [kind |-> "create", id |-> id, arg |-> t])
                               EXCEPT !.reused = hist.reused \/ InUse(kv, id)]

\* Line 110: the get of the owner's list.
transcribeAudio_getIndex(p) ==
    /\ At(p, "t_getIndex")
    /\ Goto(p, "t_putIndex",
            [frame[p] EXCEPT
                !.data = KvGet(kv, userTranscriptionsKey(frame[p].rec.userId))])
    /\ UNCHANGED <<kv, clock, hist>>

\* Lines 111-120: push, the put of the list, the response.
transcribeAudio_putIndex(p) ==
    /\ At(p, "t_putIndex")
    /\ kv' = PutUserTranscriptions(kv, frame[p].rec.userId,
                                   PushId(frame[p].data, frame[p].id))
    /\ Return(p, [Returned("transcribeAudio", TranscribeAudioResponse(frame[p].rec))
                     EXCEPT !.record = frame[p].rec])
    /\ hist' = Wrote(hist, p)
    /\ UNCHANGED clock

\* transcribeAudio with its clock readings apart.  Lines 39-86: validation,
\* and now = new Date().toISOString().
transcribeAudio_now(p, input) ==
    /\ CanCall(p)
    /\ ValidationMessage(input) = ""
    /\ StoredCount < MaxRecords
    /\ Goto(p, "t_expiresAt",
            [IdleFrame EXCEPT !.op = "transcribeAudio",
                              !.rec = NewTranscription(input, "", clock)])
    /\ hist' = Started(hist, [kind |-> "create", id |-> "", arg |-> NoRecord])
    /\ UNCHANGED <<kv, clock>>

\* Lines 87-106: expiresAt from Date.now() read again, the id from Date.now()
\* of generateId, and the put of the primary key.
transcribeAudio_expiresAt(p) ==
    /\ At(p, "t_expiresAt")
    /\ \E suffix \in RandomSuffixes :
          LET id == generateId(clock, suffix)
              t == [frame[p].rec EXCEPT !.transcriptionId = id,
                                        !.expiresAt = toISOString(clock + TTL)]
          IN  /\ kv' = PutTranscription(kv, t)
              /\ Goto(p, "t_getIndex", [frame[p] EXCEPT !.id = id, !.rec = t])
    /\ UNCHANGED <<clock, hist>>

\* ------------------------------------------------------ getById, listByUser
getById(p, id) ==
    /\ CanCall(p)
    /\ LET got == GetById(kv, id)
       IN  Return(p, IF got.error = "" THEN Returned("getById", got.value)
                     ELSE Threw("getById", got.error))
    /\ hist' = Observed(hist)
    /\ UNCHANGED <<kv, clock>>

\* The reads of listByUser are taken in one step.
listByUser(p, userId) ==
    /\ CanCall(p)
    /\ LET got == ListByUser(kv, userId)
       IN  Return(p, IF got.error = "" THEN Returned("listByUser", ArrayOf(got.value))
                     ELSE Threw("listByUser", got.error))
    /\ hist' = Observed(hist)
    /\ UNCHANGED <<kv, clock>>

\* ------------------------------------------------------------------ update
\* Lines 175-187: getById and the merged record.
update(p, id, updates) ==
    /\ CanCall(p)
    /\ LET got == GetById(kv, id)
           op == [kind |-> "update", id |-> id, arg |-> updates]
       IN  IF got.error # ""
           THEN /\ Return(p, Threw("update", got.error))
                /\ hist' = Started(hist, op)
           ELSE /\ Goto(p, "u_put",
                        [IdleFrame EXCEPT
                            !.op = "update", !.id = id,
                            !.rec = UpdatedTranscription(got.value, updates),
                            !.data = KvGet(kv, transcriptionKey(id))])
                /\ hist' = Started(hist, op)
    /\ UNCHANGED <<kv, clock>>

\* An update that also appends the id to the owner's list.
update_putAndList(p) ==
    /\ At(p, "u_put")
    /\ kv' = PutUserTranscriptions(
                KvPut(kv, transcriptionKey(frame[p].id), JSONstringifyObject(frame[p].rec)),
                frame[p].rec.userId,
                PushId(KvGet(kv, userTranscriptionsKey(frame[p].rec.userId)), frame[p].id))
    /\ Return(p, Returned("update", frame[p].rec))
    /\ hist' = Wrote(hist, p)
    /\ UNCHANGED clock

\* Lines 189-192: the put of the merged record.
update_put(p) ==
    /\ At(p, "u_put")
    /\ kv' = KvPut(kv, transcriptionKey(frame[p].id), JSONstringifyObject(frame[p].rec))
    /\ Return(p, Returned("update", frame[p].rec))
    /\ hist' = Wrote(hist, p)
    /\ UNCHANGED clock

\* ------------------------------------------------- delete, cleanupExpired
\* The for loop of cleanupExpired moves past the key it visited: the next
\* key, or the return of deletedCount after the last one.
NextKey(p, count, h) ==
    IF Len(frame[p].keys) <= 1
    THEN /\ Return(p, Returned("cleanupExpired", CountOf(count)))
         /\ hist' = [h EXCEPT
                        !.swept = IF frame[p].now = toISOString(clock)
                                  THEN frame[p].now ELSE ""]
    ELSE /\ Goto(p, "c_get",
                 [IdleFrame EXCEPT !.op = "cleanupExpired",
                                   !.keys = Tail(frame[p].keys),
                                   !.count = count,
                                   !.now = frame[p].now])
         /\ hist' = h

\* delete returns: to its caller, or into the loop of cleanupExpired
\* (deletedCount++).
FinishDelete(p, h) ==
    IF frame[p].op = "delete"
    THEN /\ Return(p, Returned("delete", Void))
         /\ hist' = h
    ELSE NextKey(p, frame[p].count + 1, [h EXCEPT !.deleted = @ \cup {frame[p].id}])

\* Line 199: getById.
delete(p, id) ==
    /\ CanCall(p)
    /\ LET got == GetById(kv, id)
           op == [kind |-> "delete", id |-> id, arg |-> Void]
       IN  IF got.error # ""
           THEN /\ Return(p, Threw("delete", got.error))
                /\ hist' = Started(hist, op)
           ELSE /\ Goto(p, "d_del",
                        [IdleFrame EXCEPT !.op = "delete", !.id = id, !.rec = got.value])
                /\ hist' = Started(hist, op)
    /\ UNCHANGED <<kv, clock>>

\* delete without its kv.delete.
delete_kvDeleteSkipped(p) ==
    /\ At(p, "d_del")
    /\ Goto(p, "d_getIndex", frame[p])
    /\ UNCHANGED <<kv, clock, hist>>

\* Line 203: the delete of the primary key.
delete_kvDelete(p) ==
    /\ At(p, "d_del")
    /\ kv' = KvDelete(kv, transcriptionKey(frame[p].id))
    /\ Goto(p, "d_getIndex", frame[p])
    /\ UNCHANGED <<clock, hist>>

\* Lines 206-209: the get of the owner's list; no list, nothing to remove.
delete_getIndex(p) ==
    /\ At(p, "d_getIndex")
    /\ LET data == KvGet(kv, userTranscriptionsKey(frame[p].rec.userId))
       IN  IF data = Null
           THEN FinishDelete(p, hist)
           ELSE /\ Goto(p, "d_putIndex", [frame[p] EXCEPT !.data = data])
                /\ UNCHANGED hist
    /\ UNCHANGED <<kv, clock>>

\* Lines 210-212: filter, the put of the list.
delete_putIndex(p) ==
    /\ At(p, "d_putIndex")
    /\ kv' = PutUserTranscriptions(kv, frame[p].rec.userId,
                                   FilterId(frame[p].data, frame[p].id))
    /\ FinishDelete(p, Wrote(hist, p))
    /\ UNCHANGED clock

\* Lines 220-222: now, and the list of the primary keys.
cleanupExpired(p) ==
    /\ CanCall(p)
    /\ LET now == toISOString(clock)
           keys == SortedKeys(KvList(kv, TRANSCRIPTION_PREFIX))
           h == Started(hist, [kind |-> "sweep", id |-> "", arg |-> [now |-> now]])
       IN  IF keys = << >>
           THEN /\ Return(p, Returned("cleanupExpired", CountOf(0)))
                /\ hist' = [h EXCEPT !.swept = now, !.repeat = (hist.swept = now)]
           ELSE /\ Goto(p, "c_get",
                        [IdleFrame EXCEPT !.op = "cleanupExpired",
                                          !.keys = keys, !.now = now])
                /\ hist' = [h EXCEPT !.repeat = (hist.swept = now)]
    /\ UNCHANGED <<kv, clock>>

\* The visit of the key ended at the catch of line 234.
Caught(h, key) == [h EXCEPT !.caught = @ \cup {key}]

\* Lines 226-229: the get of one key, and the comparison of expiresAt; the
\* SyntaxError of JSON.parse is caught at line 234.
cleanupExpired_get(p) ==
    /\ At(p, "c_get")
    /\ LET key == Head(frame[p].keys)
           data == KvGet(kv, key)
           h == [hist EXCEPT !.seen = @ \cup {key}]
       IN  IF data = Null THEN NextKey(p, frame[p].count, h)
           ELSE IF data = Garbage
           THEN NextKey(p, frame[p].count, Caught(h, key))
           ELSE IF StringLess(JSONparseObject(data).expiresAt, frame[p].now)
           THEN /\ Goto(p, "c_delete",
                        [frame[p] EXCEPT !.id = JSONparseObject(data).transcriptionId])
                /\ hist' = h
           ELSE NextKey(p, frame[p].count, h)
    /\ UNCHANGED <<kv, clock>>

\* Line 230 into line 199: the getById of the delete the loop calls; what it
\* throws is caught at line 234.
cleanupExpired_delete(p) ==
    /\ At(p, "c_delete")
    /\ LET got == GetById(kv, frame[p].id)
       IN  IF got.error # ""
           THEN NextKey(p, frame[p].count, Caught(hist, Head(frame[p].keys)))
           ELSE /\ Goto(p, "d_del", [frame[p] EXCEPT !.rec = got.value])
                /\ UNCHANGED hist
    /\ UNCHANGED <<kv, clock>>

\* ------------------------------------------------------------------- time
\* Time passes; a caller takes a result at once.
Tick ==
    /\ clock < MaxClock
    /\ NoneReturned
    /\ clock' = clock + 1
    /\ hist' = [hist EXCEPT !.swept = ""]
    /\ UNCHANGED <<kv, pc, frame, result>>

\* ---------------------------------------------------------- specifications
Step(p) ==
    \/ \E input \in CreateInputs : transcribeAudio(p, input)
    \/ transcribeAudio_getIndex(p)
    \/ transcribeAudio_putIndex(p)
    \/ \E id \in IdInputs : getById(p, id)
    \/ \E userId \in Users \cup {""} : listByUser(p, userId)
    \/ \E id \in IdInputs, updates \in Patches : update(p, id, updates)
    \/ update_put(p)
    \/ \E id \in IdInputs : delete(p, id)
    \/ delete_kvDelete(p)
    \/ delete_getIndex(p)
    \/ delete_putIndex(p)
    \/ cleanupExpired(p)
    \/ cleanupExpired_get(p)
    \/ cleanupExpired_delete(p)
    \/ Resume(p)

\* One caller: the calls run one after the other.
Next == (\E p \in SeqProcs : Step(p)) \/ Tick

Spec == Init /\ [][Next]_vars

\* Two callers of transcribeAudio, update and delete: their calls interleave
\* at the awaits, and take less time than the clock resolves.
StepConc(p) ==
    \/ \E input \in CreateInputs : transcribeAudio(p, input)
    \/ transcribeAudio_getIndex(p)
    \/ transcribeAudio_putIndex(p)
    \/ \E id \in IdInputs, updates \in Patches : update(p, id, updates)
    \/ update_put(p)
    \/ \E id \in IdInputs : delete(p, id)
    \/ delete_kvDelete(p)
    \/ delete_getIndex(p)
    \/ delete_putIndex(p)
    \/ Resume(p)

NextConc == \E p \in Procs : StepConc(p)

SpecConc == Init /\ [][NextConc]_vars

\* One caller, and the clock free to advance between the clock readings of
\* transcribeAudio (a tick stands for any advance of Date.now(), one
\* millisecond included).
StepClock(p) ==
    \/ \E input \in ValidInputs : transcribeAudio_now(p, input)
    \/ transcribeAudio_expiresAt(p)
    \/ transcribeAudio_getIndex(p)
    \/ transcribeAudio_putIndex(p)
    \/ \E id \in IdInputs, updates \in Patches : update(p, id, updates)
    \/ update_put(p)
    \/ \E id \in IdInputs : getById(p, id)
    \/ Resume(p)

NextClock == (\E p \in SeqProcs : StepClock(p)) \/ Tick

SpecClock == Init /\ [][NextClock]_vars

\* ------------------------------------------- the methods run without interleaving
\* transcribeAudio of a valid input, lines 105-113, with t the record built.
RunCreate(store, t) ==
    LET s1 == PutTranscription(store, t)
        data == KvGet(s1, userTranscriptionsKey(t.userId))
    IN  PutUserTranscriptions(s1, t.userId, PushId(data, t.transcriptionId))

\* update, lines 175-190; the NotFoundError of getById writes nothing.
RunUpdate(store, id, updates) ==
    LET got == GetById(store, id)
    IN  IF got.error # "" THEN store
        ELSE KvPut(store, transcriptionKey(id),
                   JSONstringifyObject(UpdatedTranscription(got.value, updates)))

\* delete, lines 199-212; the NotFoundError of getById writes nothing.
RunDelete(store, id) ==
    LET got == GetById(store, id)
        s1 == KvDelete(store, transcriptionKey(id))
        data == KvGet(s1, userTranscriptionsKey(got.value.userId))
    IN  IF got.error # "" THEN store
        ELSE IF data = Null THEN s1
        ELSE PutUserTranscriptions(s1, got.value.userId, FilterId(data, id))

\* A call of a group, run alone on a store.
RunOp(store, op) ==
    CASE op.kind = "create" -> RunCreate(store, op.arg)
      [] op.kind = "update" -> RunUpdate(store, op.id, op.arg)
      [] op.kind = "delete" -> RunDelete(store, op.id)
      [] OTHER -> store

\* ------------------------------------------------------------------- faults
\* The awaits a running call can be at.
Awaits ==
    {"t_getIndex", "t_putIndex", "u_put", "d_del", "d_getIndex", "d_putIndex",
     "c_get", "c_delete"}

\* A failing backend call that no method catches: cleanupExpired throws it
\* as the other methods do.
BackendFailsUncaught(p) ==
    /\ pc[p] \in Awaits
    /\ NoneReturned
    /\ hist.failures < MaxFailures
    /\ Return(p, Threw(frame[p].op, "BackendError"))
    /\ hist' = [hist EXCEPT !.failures = @ + 1]
    /\ UNCHANGED <<kv, clock>>

\* The backend call a running method awaits rejects, and has done nothing.
\* In the loop of cleanupExpired the error is caught at line 234 and the loop
\* goes on to the next key; elsewhere the method throws it.
BackendFails(p) ==
    /\ pc[p] \in Awaits
    /\ NoneReturned
    /\ hist.failures < MaxFailures
    /\ LET h == [hist EXCEPT !.failures = @ + 1]
       IN  IF frame[p].op = "cleanupExpired"
           THEN NextKey(p, frame[p].count,
                        Caught([h EXCEPT !.seen = @ \cup {Head(frame[p].keys)}],
                               Head(frame[p].keys)))
           ELSE /\ Return(p, Threw(frame[p].op, "BackendError"))
                /\ hist' = h
    /\ UNCHANGED <<kv, clock>>

\* Between two calls, the text under a primary key is replaced by one that
\* is not JSON; one damaged text at a time.
Corrupt(id) ==
    /\ AllIdle
    /\ NoneReturned
    /\ \A k \in DOMAIN kv : kv[k] # Garbage
    /\ GetById(kv, id).error = ""
    /\ kv' = KvPut(kv, transcriptionKey(id), Garbage)
    /\ hist' = Observed(hist)
    /\ UNCHANGED <<clock, pc, frame, result>>

\* While cleanupExpired runs, another client deletes a record whose visit
\* the loop has not completed; one such delete in a sweep.
DeletedElsewhere(id) ==
    /\ hist.elsewhere = {}
    /\ \E p \in SeqProcs :
          /\ frame[p].op = "cleanupExpired"
          /\ \E i \in 1..Len(frame[p].keys) : frame[p].keys[i] = transcriptionKey(id)
    /\ NoneReturned
    /\ GetById(kv, id).error = ""
    /\ kv' = RunDelete(kv, id)
    /\ hist' = [hist EXCEPT !.elsewhere = @ \cup {id}]
    /\ UNCHANGED <<clock, pc, frame, result>>

\* The backend answers the call a method awaits: with its result or with an
\* error.
Settles(p) ==
    \/ transcribeAudio_getIndex(p)
    \/ transcribeAudio_putIndex(p)
    \/ delete_kvDelete(p)
    \/ delete_getIndex(p)
    \/ delete_putIndex(p)
    \/ cleanupExpired_get(p)
    \/ cleanupExpired_delete(p)
    \/ BackendFails(p)

StepFault(p) ==
    \/ \E input \in ValidInputs : transcribeAudio(p, input)
    \/ \E id \in IdInputs : getById(p, id)
    \/ \E userId \in Users : listByUser(p, userId)
    \/ \E id \in IdInputs : delete(p, id)
    \/ cleanupExpired(p)
    \/ Settles(p)
    \/ Resume(p)

NextFault ==
    \/ \E p \in SeqProcs : StepFault(p)
    \/ Tick
    \/ \E id \in AllIds : Corrupt(id)
    \/ \E id \in AllIds : DeletedElsewhere(id)

\* One caller, a backend whose calls can fail, stored texts that can be
\* damaged, and a second client that deletes while a sweep runs.  Every call
\* the backend is given is answered.
SpecFault ==
    Init /\ [][NextFault]_vars /\ \A p \in SeqProcs : WF_vars(Settles(p))

\* The sweep and the creates of one owner that fill the store, with the same
\* faults.
StepSweep(p) ==
    \/ \E input \in {i \in ValidInputs : i.userId = "u1"} : transcribeAudio(p, input)
    \/ cleanupExpired(p)
    \/ Settles(p)
    \/ Resume(p)

NextSweep ==
    \/ \E p \in SeqProcs : StepSweep(p)
    \/ Tick
    \/ \E id \in AllIds : Corrupt(id)
    \/ \E id \in AllIds : DeletedElsewhere(id)

SpecSweep ==
    Init /\ [][NextSweep]_vars /\ \A p \in SeqProcs : WF_vars(Settles(p))

\* ------------------------------------------------ the Redis-backed service
\* TranscriptionService (lines 246-391).  In its specification kv is the
\* Redis keyspace, each key with its text and the time it expires, and one
\* time unit is half the TTL of 86400 seconds.
RedisTTL == 2

Uuids == {"id" \o CodeUnits[i + 1] : i \in 1..NumUuids}

Statuses == {"processing", "failed"}

\* interface Transcription of models/definitions, with the two keys of
\* Timestamp the service writes.
ServiceKeys ==
    {"id", "userId", "transcriptionText", "fileName", "fileSize", "mimeType",
     "status", "createdAt", "updatedAt"}

\* redis.setex(key, seconds, value) at the time now
RedisSetex(store, key, seconds, value, now) ==
    KvPut(store, key, [text |-> value, expireAt |-> now + seconds])

\* redis.get(key)
RedisGet(store, key) == IF key \in DOMAIN store THEN store[key].text ELSE Null

\* redis.del(key)
RedisDel(store, key) == KvDelete(store, key)

\* redis.keys(prefix*)
RedisKeys(store, prefix) == KvList(store, prefix)

\* The keys Redis still holds at the time now.
RedisExpire(store, now) ==
    [k \in {x \in DOMAIN store : store[x].expireAt > now} |-> store[k]]

\* `user_transcriptions:${userId}:${transcriptionId}`, and the prefix of the
\* pattern `user_transcriptions:${userId}:*`
userIndexPrefix(userId) == USER_TRANSCRIPTIONS_PREFIX \o userId \o ":"

userIndexKey(userId, id) == userIndexPrefix(userId) \o id

\* Lines 256-273: the transcription object.
ServiceTranscription(userId, id, now) ==
    [id |-> id,
     userId |-> userId,
     transcriptionText |-> "Mock transcription text...",
     fileName |-> "a.wav",
     fileSize |-> "1",
     mimeType |-> "audio/wav",
     status |-> "completed",
     createdAt |-> now,
     updatedAt |-> now]

NoTranscription == [k \in ServiceKeys |-> Undefined]

\* JSON.parse(result) as Transcription
JSONparseTranscription(s) ==
    [k \in ServiceKeys |-> IF k \in DOMAIN s.members THEN s.members[k] ELSE Undefined]

\* Lines 293-306: null for a missing key, and for a text that does not parse.
GetTranscription(store, id) ==
    LET data == RedisGet(store, transcriptionKey(id))
    IN  IF data = Null THEN [found |-> FALSE, record |-> NoTranscription]
        ELSE IF data = Garbage THEN [found |-> FALSE, record |-> NoTranscription]
        ELSE [found |-> TRUE, record |-> JSONparseTranscription(data)]

\* Lines 330-337: the transcriptions of the ids that getTranscription finds.
RECURSIVE FetchFound(_, _)
FetchFound(store, ids) ==
    IF ids = << >> THEN << >>
    ELSE LET got == GetTranscription(store, Head(ids))
         IN  (IF got.found THEN <<got.record>> ELSE << >>)
                 \o FetchFound(store, Tail(ids))

\* Lines 308-348: the keys of the pattern, the id each holds, the
\* transcriptions found, newest first.
GetUserTranscriptions(store, userId) ==
    LET keys == SortedKeys(RedisKeys(store, userIndexPrefix(userId)))
        ids == [i \in 1..Len(keys) |->
                   RedisGet(store, keys[i]).members.transcriptionId]
    IN  SortNewestFirst(FetchFound(store, ids))

\* An id that has a key in the keyspace.
UuidInUse(store, id) ==
    \/ transcriptionKey(id) \in DOMAIN store
    \/ \E u \in Users : userIndexKey(u, id) \in DOMAIN store

\* Lines 253-281: uuidv4() gives an id no key holds; the transcription, and
\* the setex of the primary key.
serviceTranscribeAudio(p, userId) ==
    /\ CanCall(p)
    /\ Cardinality(RedisKeys(kv, TRANSCRIPTION_PREFIX)) < MaxRecords
    /\ \E id \in Uuids :
          LET t == ServiceTranscription(userId, id, toISOString(clock))
          IN  /\ ~UuidInUse(kv, id)
              /\ kv' = RedisSetex(kv, transcriptionKey(id), RedisTTL,
                                  JSONstringifyObject(t), clock)
              /\ Goto(p, "s_setexIndex",
                      [IdleFrame EXCEPT !.op = "serviceTranscribeAudio",
                                        !.id = id, !.rec = t])
    /\ UNCHANGED <<clock, hist>>

\* Lines 283-290: the setex of the index key.
serviceTranscribeAudio_setexIndex(p) ==
    /\ At(p, "s_setexIndex")
    /\ kv' = RedisSetex(kv, userIndexKey(frame[p].rec.userId, frame[p].id), RedisTTL,
                        JSONstringifyObject([transcriptionId |-> frame[p].id,
                                             createdAt |-> frame[p].rec.createdAt]),
                        clock)
    /\ Return(p, Returned("serviceTranscribeAudio", frame[p].rec))
    /\ UNCHANGED <<clock, hist>>

getTranscription(p, id) ==
    /\ CanCall(p)
    /\ Return(p, Returned("getTranscription", GetTranscription(kv, id)))
    /\ UNCHANGED <<kv, clock, hist>>

\* The reads of getUserTranscriptions are taken in one step.
getUserTranscriptions(p, userId) ==
    /\ CanCall(p)
    /\ Return(p, Returned("getUserTranscriptions",
                          ArrayOf(GetUserTranscriptions(kv, userId))))
    /\ UNCHANGED <<kv, clock, hist>>

\* Lines 373-380: getTranscription, null for none; the new status.
updateTranscriptionStatus(p, id, status) ==
    /\ CanCall(p)
    /\ LET got == GetTranscription(kv, id)
       IN  IF ~got.found
           THEN Return(p, Returned("updateTranscriptionStatus", got))
           ELSE Goto(p, "s_setex",
                     [IdleFrame EXCEPT !.op = "updateTranscriptionStatus", !.id = id,
                                       !.rec = [got.record EXCEPT !.status = status]])
    /\ UNCHANGED <<kv, clock, hist>>

\* Lines 381-389: updatedAt, and the setex of the primary key alone.
updateTranscriptionStatus_setex(p) ==
    /\ At(p, "s_setex")
    /\ LET t == [frame[p].rec EXCEPT !.updatedAt = toISOString(clock)]
       IN  /\ kv' = RedisSetex(kv, transcriptionKey(frame[p].id), RedisTTL,
                               JSONstringifyObject(t), clock)
           /\ Return(p, Returned("updateTranscriptionStatus",
                                 [found |-> TRUE, record |-> t]))
    /\ UNCHANGED <<clock, hist>>

\* Lines 350-358: getTranscription, false for none.
deleteTranscription(p, id) ==
    /\ CanCall(p)
    /\ LET got == GetTranscription(kv, id)
       IN  IF ~got.found
           THEN Return(p, Returned("deleteTranscription", [deleted |-> FALSE]))
           ELSE Goto(p, "s_del",
                     [IdleFrame EXCEPT !.op = "deleteTranscription", !.id = id,
                                       !.rec = got.record])
    /\ UNCHANGED <<kv, clock, hist>>

\* Line 361: the del of the primary key.
deleteTranscription_del(p) ==
    /\ At(p, "s_del")
    /\ kv' = RedisDel(kv, transcriptionKey(frame[p].id))
    /\ Goto(p, "s_delIndex", frame[p])
    /\ UNCHANGED <<clock, hist>>

\* Lines 364-366: the del of the index key.
deleteTranscription_delIndex(p) ==
    /\ At(p, "s_delIndex")
    /\ kv' = RedisDel(kv, userIndexKey(frame[p].rec.userId, frame[p].id))
    /\ Return(p, Returned("deleteTranscription", [deleted |-> TRUE]))
    /\ UNCHANGED <<clock, hist>>

\* Time passes, and Redis drops the keys whose time has come.
RedisTick ==
    /\ clock < MaxClock
    /\ NoneReturned
    /\ clock' = clock + 1
    /\ kv' = RedisExpire(kv, clock + 1)
    /\ UNCHANGED <<pc, frame, result, hist>>

StepService(p) ==
    \/ \E userId \in Users : serviceTranscribeAudio(p, userId)
    \/ serviceTranscribeAudio_setexIndex(p)
    \/ \E id \in Uuids : getTranscription(p, id)
    \/ \E userId \in Users : getUserTranscriptions(p, userId)
    \/ \E id \in Uuids, status \in Statuses : updateTranscriptionStatus(p, id, status)
    \/ updateTranscriptionStatus_setex(p)
    \/ \E id \in Uuids : deleteTranscription(p, id)
    \/ deleteTranscription_del(p)
    \/ deleteTranscription_delIndex(p)
    \/ Resume(p)

NextService ==
    \/ \E p \in SeqProcs : StepService(p)
    \/ RedisTick

\* One caller of the service.
SpecService == Init /\ [][NextService]_vars

\* ----------------------------------------------------------------- properties
\* The last call of a group has returned and its caller has not yet resumed.
GroupOver == AllIdle /\ hist.ops # << >>

\* A group of one call of the kind.
Alone(kind) == GroupOver /\ Len(hist.ops) = 1 /\ hist.ops[1].kind = kind

\* A group of two calls: the second began while the first was in flight.
Together == GroupOver /\ Len(hist.ops) = 2

\* The primary records and the index lists of a store agree: each stored
\* record's id occurs exactly once in the list of the record's owner, and each
\* id of a list has a stored record of the list's owner.
Consistent(store) ==
    /\ \A id \in StoredIds(store) :
          Occurrences(IndexOf(store, GetById(store, id).value.userId), id) = 1
    /\ \A u \in Users : \A i \in 1..Len(IndexOf(store, u)) :
          LET got == GetById(store, IndexOf(store, u)[i])
          IN  got.error = "" /\ got.value.userId = u

\* Without interleaving, a call leaves the store as RunOp computes it.
RunOpIsTheCall ==
    (GroupOver /\ Len(hist.ops) = 1 /\ hist.ops[1].kind # "sweep")
        => kv = RunOp(hist.base, hist.ops[1])

\* C1: index-record consistency.  A completed create, update, delete or sweep
\* that is run alone on a store whose records and index lists agree, and in
\* which generateId returned no id in use, leaves a store whose records and
\* index lists agree: each stored record has exactly one occurrence of its id
\* in its owner's list, each id of a list has a stored record of that owner.
\* The empty store agrees, so every state of such calls does.
C1_IndexRecordConsistency ==
    /\ Consistent(EmptyStore)
    /\ (GroupOver /\ ~hist.reused /\ Consistent(hist.base)) => Consistent(kv)

\* C1 witness: a delete has returned, it began on a store that agrees, and it
\* leaves a store that agrees and still holds a record.
C1_Witness ==
    /\ Alone("delete")
    /\ result[1].error = ""
    /\ ~hist.reused
    /\ Consistent(hist.base)
    /\ Consistent(kv)
    /\ StoredIds(kv) # {}

\* C2: create/get round trip.  When transcribeAudio has returned, getById of
\* the transcriptionId it returned yields a record equal, field for field, to
\* the record transcribeAudio built and wrote.
C2_CreateGetRoundTrip ==
    \A p \in Procs :
        (pc[p] = "returned" /\ result[p].op = "transcribeAudio" /\ result[p].error = "")
            => GetById(kv, result[p].value.transcriptionId)
                   = [error |-> "", value |-> result[p].record]

\* C2 witness: transcribeAudio has returned and getById finds the record it
\* built.
C2_Witness ==
    /\ pc[1] = "returned"
    /\ result[1].op = "transcribeAudio"
    /\ result[1].error = ""
    /\ result[1].record.status = "completed"
    /\ GetById(kv, result[1].value.transcriptionId).value = result[1].record

\* The ids of the records listByUser(userId) returns.
ListedIds(store, userId) ==
    LET list == ListByUser(store, userId).value
    IN  {list[i].transcriptionId : i \in 1..Len(list)}

\* getById(id) throws NotFoundError and the id is none of the listed ones.
GoneFrom(store, id, listed) ==
    GetById(store, id).error = "NotFoundError" /\ id \notin listed

\* getById(id) throws NotFoundError and listByUser(userId) returns no record
\* with the id.
Gone(store, id, userId) == GoneFrom(store, id, ListedIds(store, userId))

\* A delete of a stored record of the owner has returned.
DeleteDone(id, userId) ==
    /\ Alone("delete")
    /\ hist.ops[1].id = id
    /\ GetById(hist.base, id).error = ""
    /\ GetById(hist.base, id).value.userId = userId

\* This step is a transcribeAudio that generates the id.
Produces(id) ==
    \E p \in Procs : pc[p] = "idle" /\ pc'[p] = "t_getIndex" /\ frame'[p].id = id

NoDuplicates(list) ==
    \A i, j \in 1..Len(list) : i # j => list[i] # list[j]

\* The first place of the id in the owner's list.
IndexPosition(store, userId, id) ==
    CHOOSE i \in 1..Len(IndexOf(store, userId)) :
        /\ IndexOf(store, userId)[i] = id
        /\ \A j \in 1..(i - 1) : IndexOf(store, userId)[j] # id

\* Newest first, and records of one createdAt in the order of the list.
NewestFirst(store, userId, list) ==
    \A i, j \in 1..Len(list) :
        i < j =>
            \/ getTime(list[i].createdAt) > getTime(list[j].createdAt)
            \/ /\ list[i].createdAt = list[j].createdAt
               /\ IndexPosition(store, userId, list[i].transcriptionId)
                      < IndexPosition(store, userId, list[j].transcriptionId)

\* One more create for the owner: when listByUser returned each listed id's
\* record once before the create, it returns afterwards those records and the
\* new one, each once, newest first, ties in the order of the list.
ListsOneMore ==
    LET t == hist.ops[1].arg
        before == ListByUser(hist.base, t.userId).value
        after == ListByUser(kv, t.userId).value
    IN  (NoDuplicates(before) /\ Len(before) = Len(IndexOf(hist.base, t.userId)))
            => /\ Len(after) = Len(before) + 1
               /\ NoDuplicates(after)
               /\ \E i \in 1..Len(after) : after[i] = t
               /\ \A i \in 1..Len(before) : \E j \in 1..Len(after) : after[j] = before[i]
               /\ NewestFirst(kv, t.userId, after)

\* C4: listing completeness and order.  After N successful creates for one
\* owner, run one after the other, listByUser returns exactly those N
\* records, each once, newest first, records of equal createdAt in the order
\* of the index list: each successful create adds its record, once, to what
\* listByUser returned before.
C4_ListingCompleteAndOrdered == Alone("create") => ListsOneMore

\* The same for creates in which generateId returned no id in use.
ListingOfDistinctIds == (Alone("create") /\ ~hist.reused) => ListsOneMore

\* The inputs the validation is to refuse: an empty owner id, an empty
\* buffer, a size above 25 MiB, a MIME type outside the allow-list.
Refused(input) ==
    \/ input.userId = ""
    \/ input.audioLength = 0
    \/ input.audioLength > maxSize
    \/ input.mimeType \notin allowedTypes

\* C5: failed validation writes nothing.  transcribeAudio of an input with an
\* empty owner id, an empty buffer, a size above 25 MiB or a MIME type
\* outside the allow-list throws ValidationError, and the store is the same
\* before and after the call.
C5_FailedValidationWritesNothing ==
    [][\A p \in Procs, input \in CreateInputs :
          (Refused(input) /\ transcribeAudio(p, input))
              => /\ pc'[p] = "returned"
                 /\ result'[p].error = "ValidationError"
                 /\ kv' = kv]_vars

\* C5 witness: transcribeAudio has thrown ValidationError on a store that
\* holds a record.
C5_Witness ==
    /\ pc[1] = "returned"
    /\ result[1].op = "transcribeAudio"
    /\ result[1].error = "ValidationError"
    /\ StoredIds(kv) # {}

\* C6: update protects immutable fields.  When update of a stored record has
\* returned, the record stored and the record returned differ from the
\* record before the update in no field other than status, text and
\* confidence, whatever keys the patch holds.
C6_UpdateProtectsImmutableFields ==
    \A p \in Procs :
        (Alone("update") /\ pc[p] = "returned" /\ result[p].error = "")
            => LET before == GetById(hist.base, hist.ops[1].id).value
                   stored == GetById(kv, hist.ops[1].id).value
               IN  \A k \in Keys \ UpdateKeys :
                       stored[k] = before[k] /\ result[p].value[k] = before[k]

\* The same without the field duration.
UpdateProtectsSevenFields ==
    \A p \in Procs :
        (Alone("update") /\ pc[p] = "returned" /\ result[p].error = "")
            => LET before == GetById(hist.base, hist.ops[1].id).value
                   stored == GetById(kv, hist.ops[1].id).value
               IN  \A k \in Keys \ (UpdateKeys \cup {"duration"}) :
                       stored[k] = before[k] /\ result[p].value[k] = before[k]

\* C7: getById of an unknown id.  getById of an id that has no primary key in
\* the store throws NotFoundError and changes no key.
C7_GetUnknownId ==
    [][\A p \in Procs, id \in IdInputs :
          (transcriptionKey(id) \notin DOMAIN kv /\ getById(p, id))
              => /\ pc'[p] = "returned"
                 /\ result'[p].error = "NotFoundError"
                 /\ kv' = kv]_vars

\* C7 witness: getById has thrown NotFoundError on a store that holds a
\* record.
C7_Witness ==
    /\ pc[1] = "returned"
    /\ result[1].op = "getById"
    /\ result[1].error = "NotFoundError"
    /\ StoredIds(kv) # {}

\* C8: sweep idempotence.  A cleanupExpired that follows a completed
\* cleanupExpired of the same now, with no call in between, changes no key at
\* any of its steps and returns 0.
C8_SweepIdempotent ==
    [][\A p \in Procs :
          /\ (frame[p].op = "cleanupExpired" /\ hist.repeat) => kv' = kv
          /\ (pc'[p] = "returned" /\ result'[p].op = "cleanupExpired" /\ hist'.repeat)
                => (result'[p].value.count = 0 /\ kv' = kv)]_vars

\* C8 witness: the second of two sweeps of one now has returned 0, and it had
\* a record to look at.
C8_Witness ==
    /\ pc[1] = "returned"
    /\ result[1].op = "cleanupExpired"
    /\ hist.repeat
    /\ result[1].value.count = 0
    /\ StoredIds(kv) # {}

\* The two calls of the group, run one after the other in either order.
OneAfterTheOther ==
    {RunOp(RunOp(hist.base, hist.ops[1]), hist.ops[2]),
     RunOp(RunOp(hist.base, hist.ops[2]), hist.ops[1])}

\* The owner whose index list a call writes: transcribeAudio the input's
\* owner, delete the stored record's owner, update none ("").
IndexOwnerOf(op) ==
    CASE op.kind = "create" -> op.arg.userId
      [] op.kind = "delete" ->
            IF GetById(hist.base, op.id).error = ""
            THEN GetById(hist.base, op.id).value.userId
            ELSE ""
      [] OTHER -> ""

SameIndexOwner ==
    IndexOwnerOf(hist.ops[1]) # "" /\ IndexOwnerOf(hist.ops[1]) = IndexOwnerOf(hist.ops[2])

\* C9, as stated: when two calls on different ids run together, every
\* interleaving ends in the store that running the two one after the other,
\* in some order, ends in.
C9_IndependentOnDifferentIds ==
    (Together /\ hist.ops[1].id # hist.ops[2].id) => kv \in OneAfterTheOther

\* C9, amended: when two calls on different ids run together and do not both
\* write the index list of one owner, every interleaving ends in the store
\* that running the two one after the other, in some order, ends in.
C9_IndependentOnDifferentOwners ==
    (Together /\ hist.ops[1].id # hist.ops[2].id /\ ~SameIndexOwner)
        => kv \in OneAfterTheOther

\* C9 witness: two creates for different owners ran together, neither on an
\* id in use, and the store is as after one and then the other.
C9_Witness ==
    /\ Together
    /\ hist.ops[1].kind = "create"
    /\ hist.ops[2].kind = "create"
    /\ hist.ops[1].id # hist.ops[2].id
    /\ ~SameIndexOwner
    /\ hist.base # EmptyStore
    /\ kv \in OneAfterTheOther

\* Two calls of transcribeAudio and delete (two creates, or one of each, or
\* two deletes) on different ids ran together on a store that agreed.
IndexWriters ==
    /\ Together
    /\ hist.ops[1].kind \in {"create", "delete"}
    /\ hist.ops[2].kind \in {"create", "delete"}
    /\ hist.ops[1].id # hist.ops[2].id
    /\ ~hist.reused
    /\ Consistent(hist.base)

\* C10: lost index updates under contention.  transcribeAudio and delete read
\* the owner's list, change it and put it back without compare-and-swap.  Two
\* such calls on different ids that run together leave records and lists that
\* disagree only when a put replaced a value other than the one its call had
\* read; the witness is an interleaving where that happens.
C10_LostIndexUpdate ==
    (IndexWriters /\ ~hist.stale) => Consistent(kv)

\* C10 witness: a create and a delete for one owner ran together, and the
\* owner's list lacks the id of a record that is stored.
C10_Witness ==
    /\ IndexWriters
    /\ SameIndexOwner
    /\ {hist.ops[1].kind, hist.ops[2].kind} = {"create", "delete"}
    /\ hist.stale
    /\ \E id \in StoredIds(kv) :
          Occurrences(IndexOf(kv, GetById(kv, id).value.userId), id) = 0

\* The other outcome: the owner's list still holds the id of the record the
\* delete removed.
StaleIdInIndex ==
    /\ IndexWriters
    /\ SameIndexOwner
    /\ {hist.ops[1].kind, hist.ops[2].kind} = {"create", "delete"}
    /\ \E u \in Users : \E i \in 1..Len(IndexOf(kv, u)) :
          IndexOf(kv, u)[i] \notin StoredIds(kv)

\* An update and a delete of one id, stored when they began, ran together.
UpdateDeleteRace ==
    /\ Together
    /\ {hist.ops[1].kind, hist.ops[2].kind} = {"update", "delete"}
    /\ hist.ops[1].id = hist.ops[2].id
    /\ GetById(hist.base, hist.ops[1].id).error = ""

\* The record is stored while its owner's list lacks its id.
StoredButUnlisted(store, id) ==
    /\ GetById(store, id).error = ""
    /\ Occurrences(IndexOf(store, GetById(store, id).value.userId), id) = 0

\* C11: the update/delete race resurrects a record.  update reads the record
\* and puts it back later without looking whether it is still stored.  When
\* update(id) and delete(id) of a stored record run together, the delete
\* runs to its end (the owner's list lacks the id afterwards), and the
\* record is either gone, as after the two calls in either order, or stored
\* again by a put of update that replaced a value other than the one update
\* had read: the record update read, with the patch's status; the witness is
\* an interleaving where that happens.
C11_UpdateDeleteRace ==
    UpdateDeleteRace =>
        LET id == hist.ops[1].id
            before == GetById(hist.base, id).value
            after == GetById(kv, id)
        IN  /\ Occurrences(IndexOf(kv, before.userId), id) = 0
            /\ \/ kv \in OneAfterTheOther /\ after.error = "NotFoundError"
               \/ /\ hist.stale
                  /\ after.error = ""
                  /\ after.value.userId = before.userId
                  /\ after.value.createdAt = before.createdAt
                  /\ after.value.status = "failed"

\* C11 witness: update and delete of a stored, listed record ran together;
\* afterwards getById finds the record and its owner's list lacks the id.
C11_Witness ==
    /\ UpdateDeleteRace
    /\ Consistent(hist.base)
    /\ StoredButUnlisted(kv, hist.ops[1].id)

\* C12: id uniqueness.  A create never assigns an id that is stored or that
\* an index list holds: it replaces no stored primary record, and the id it
\* appends occurs once in the owner's list afterwards.
C12_IdUniqueness ==
    Alone("create") =>
        LET id == hist.ops[1].id
        IN  /\ ~InUse(hist.base, id)
            /\ GetById(hist.base, id).error = "NotFoundError"
            /\ Occurrences(IndexOf(kv, hist.ops[1].arg.userId), id) = 1

\* C13: expiry after creation.  Every stored record has expiresAt later than
\* createdAt; the record transcribeAudio built has expiresAt at its createdAt
\* plus TTL; a successful update leaves createdAt and expiresAt as they were.
C13_ExpiryAfterCreation ==
    /\ \A id \in StoredIds(kv) :
          getTime(GetById(kv, id).value.expiresAt) > getTime(GetById(kv, id).value.createdAt)
    /\ \A p \in Procs :
          (pc[p] = "returned" /\ result[p].op = "transcribeAudio" /\ result[p].error = "")
              => getTime(result[p].record.expiresAt)
                    = getTime(result[p].record.createdAt) + TTL
    /\ \A p \in Procs :
          (Alone("update") /\ pc[p] = "returned" /\ result[p].error = "")
              => LET before == GetById(hist.base, hist.ops[1].id).value
                     stored == GetById(kv, hist.ops[1].id).value
                 IN  /\ stored.createdAt = before.createdAt
                     /\ stored.expiresAt = before.expiresAt

\* The same with expiresAt at createdAt plus TTL or later.
ExpiryAtLeastTTLAfterCreation ==
    /\ \A id \in StoredIds(kv) :
          getTime(GetById(kv, id).value.expiresAt)
              >= getTime(GetById(kv, id).value.createdAt) + TTL
    /\ \A p \in Procs :
          (Alone("update") /\ pc[p] = "returned" /\ result[p].error = "")
              => LET before == GetById(hist.base, hist.ops[1].id).value
                     stored == GetById(kv, hist.ops[1].id).value
                 IN  /\ stored.createdAt = before.createdAt
                     /\ stored.expiresAt = before.expiresAt

\* The two stores hold the same under every key but the one.
SameButFor(store, other, key) ==
    \A k \in (DOMAIN store \cup DOMAIN other) \ {key} :
        KvGet(store, k) = KvGet(other, k)

\* C14: update leaves the index alone.  A successful update(id, patch) writes
\* the key 'transcription:<id>' only: every index list and every other
\* primary record is as before.  update of an id that is not stored throws
\* NotFoundError and writes nothing.
C14_UpdateLeavesIndexAlone ==
    \A p \in Procs :
        (Alone("update") /\ pc[p] = "returned") =>
            IF GetById(hist.base, hist.ops[1].id).error = ""
            THEN /\ result[p].error = ""
                 /\ SameButFor(kv, hist.base, transcriptionKey(hist.ops[1].id))
                 /\ GetById(kv, hist.ops[1].id).value = result[p].value
            ELSE /\ result[p].error = "NotFoundError"
                 /\ kv = hist.base

\* C14 witness: an update has returned its record; it changed the store,
\* which holds two records and their lists.
C14_Witness ==
    /\ Alone("update")
    /\ pc[1] = "returned"
    /\ result[1].error = ""
    /\ kv # hist.base
    /\ Cardinality(StoredIds(kv)) = 2
    /\ Consistent(kv)

\* The ids of the stored records whose expiresAt is before now.
ExpiredIds(store, now) ==
    {id \in StoredIds(store) :
        getTime(GetById(store, id).value.expiresAt) < getTime(now)}

\* C15: sweep removes exactly the expired records.  A cleanupExpired run
\* alone, with now read at its start, on a store whose records and lists
\* agree: afterwards the records with expiresAt < now are gone (getById
\* throws NotFoundError) and their ids are out of the lists, the records with
\* expiresAt >= now and the rest of every list are as before, and the number
\* returned is the number of records removed.
C15_SweepRemovesExactlyExpired ==
    \A p \in Procs :
        (Alone("sweep") /\ pc[p] = "returned" /\ Consistent(hist.base)) =>
            LET expired == ExpiredIds(hist.base, hist.ops[1].arg.now)
            IN  /\ result[p].error = ""
                /\ result[p].value.count = Cardinality(expired)
                /\ StoredIds(kv) = StoredIds(hist.base) \ expired
                /\ \A id \in expired : GetById(kv, id).error = "NotFoundError"
                /\ \A id \in StoredIds(kv) : GetById(kv, id) = GetById(hist.base, id)
                /\ \A u \in Users :
                      /\ IndexOf(kv, u)
                            = SelectSeq(IndexOf(hist.base, u), LAMBDA x : x \notin expired)
                      /\ userTranscriptionsKey(u) \in DOMAIN kv
                            <=> userTranscriptionsKey(u) \in DOMAIN hist.base

\* C15 witness: a sweep has removed one record and kept another.
C15_Witness ==
    /\ Alone("sweep")
    /\ pc[1] = "returned"
    /\ Consistent(hist.base)
    /\ result[1].value.count = 1
    /\ Cardinality(StoredIds(hist.base)) = 2
    /\ Cardinality(StoredIds(kv)) = 1

\* C16: corrupt record on direct get.  getById of an id whose primary key
\* holds a text that does not decode throws NotFoundError, as it does for an
\* id that has no primary key.
C16_CorruptGetIsNotFound ==
    [][\A p \in SeqProcs, id \in IdInputs :
          (KvGet(kv, transcriptionKey(id)) = Garbage /\ getById(p, id))
              => /\ pc'[p] = "returned"
                 /\ result'[p].error = "NotFoundError"]_vars

\* The ids whose record decodes and has expiresAt before now.
ExpiredReadable(store, now) ==
    {id \in StoredIds(store) :
        /\ GetById(store, id).error = ""
        /\ getTime(GetById(store, id).value.expiresAt) < getTime(now)}

\* The ids whose visit ended at the catch.
CaughtIds == {id \in AllIds : transcriptionKey(id) \in hist.caught}

InSweep(p) == frame[p].op = "cleanupExpired"

\* What a completed sweep has done, whatever failed on its way.
SweepIsolatesFaults ==
    \A p \in SeqProcs :
        (Alone("sweep") /\ pc[p] = "returned") =>
            LET expired == ExpiredReadable(hist.base, hist.ops[1].arg.now)
            IN  /\ result[p].error = ""
                /\ hist.seen = KvList(hist.base, TRANSCRIPTION_PREFIX)
                /\ \A id \in expired \ CaughtIds : id \notin StoredIds(kv)
                /\ result[p].value.count = Cardinality(hist.deleted)
                /\ hist.deleted \subseteq expired \ CaughtIds
                /\ expired \ (CaughtIds \cup hist.elsewhere) \subseteq hist.deleted

\* C17: sweep fault isolation.  When the get of a scanned key fails, its text
\* does not decode, its delete fails, or its record was deleted by another
\* client after the scan, cleanupExpired does not throw: it visits every
\* scanned key, deletes every expired record whose visit did not fail,
\* returns, and the number it returns counts the deletes that returned
\* without an error and no other.
C17_SweepFaultIsolation ==
    /\ []SweepIsolatesFaults
    /\ \A p \in SeqProcs :
          InSweep(p) ~> (pc[p] = "returned" /\ result[p].op = "cleanupExpired")

\* C17 witness: a sweep over two expired records has returned 1; the visit
\* of the other record ended at the catch.
C17_Witness ==
    /\ Alone("sweep")
    /\ pc[1] = "returned"
    /\ result[1].error = ""
    /\ result[1].value.count = 1
    /\ Cardinality(hist.caught) = 1
    /\ Cardinality(ExpiredReadable(hist.base, hist.ops[1].arg.now)) = 2

\* The positions of a list whose id has a primary key with a text that
\* decodes.
Readable(store, list) ==
    {i \in 1..Len(list) :
        /\ transcriptionKey(list[i]) \in DOMAIN store
        /\ store[transcriptionKey(list[i])] # Garbage}

\* C18: listing partial success.  listByUser of an owner throws nothing and
\* writes nothing; without a list key it returns the empty list; otherwise it
\* returns one record for each entry of the list whose record is stored and
\* decodes, as getById returns it, and nothing for the other entries.
C18_ListingPartialSuccess ==
    [][\A p \in SeqProcs, u \in Users :
          listByUser(p, u) =>
              LET list == IndexOf(kv, u)
                  got == result'[p].value.elements
              IN  /\ pc'[p] = "returned"
                  /\ result'[p].error = ""
                  /\ kv' = kv
                  /\ userTranscriptionsKey(u) \notin DOMAIN kv => got = << >>
                  /\ Len(got) = Cardinality(Readable(kv, list))
                  /\ \A i \in Readable(kv, list) :
                        \E j \in 1..Len(got) : got[j] = GetById(kv, list[i]).value
                  /\ \A j \in 1..Len(got) :
                        \E i \in Readable(kv, list) : got[j] = GetById(kv, list[i]).value]_vars

\* C18 witness: listByUser has returned one record of a list of two ids, the
\* other of which has no record or a text that does not decode.
C18_Witness ==
    /\ pc[1] = "returned"
    /\ result[1].op = "listByUser"
    /\ result[1].error = ""
    /\ Len(result[1].value.elements) = 1
    /\ LET u == result[1].value.elements[1].userId
       IN  /\ u \in Users
           /\ Len(IndexOf(kv, u)) = 2
           /\ Cardinality(Readable(kv, IndexOf(kv, u))) = 1
           /\ \E i \in Readable(kv, IndexOf(kv, u)) :
                 GetById(kv, IndexOf(kv, u)[i]).value = result[1].value.elements[1]

\* transcribeAudio has thrown the error of a backend call of its index step:
\* the record is stored as built and getById returns it, listByUser of its
\* owner returns no record with its id, and the rest of the store is as it
\* was before the call.
UnlistedRecordKept(p) ==
    LET t == hist.ops[1].arg
    IN  /\ result[p].op = "transcribeAudio"
        /\ kv = PutTranscription(hist.base, t)
        /\ GetById(kv, t.transcriptionId) = [error |-> "", value |-> t]
        /\ t.transcriptionId \notin ListedIds(kv, t.userId)

\* C19: create with failing index step.  When the get or the put of the
\* owner's list rejects, transcribeAudio throws that error; the record it put
\* before stays stored and getById returns it, listByUser of the owner does
\* not return it, and nothing is rolled back.
C19_FailedIndexStepLeavesRecordUnlisted ==
    \A p \in SeqProcs :
        (Alone("create") /\ pc[p] = "returned" /\ result[p].error = "BackendError")
            => UnlistedRecordKept(p)

\* The same for creates in which generateId returned no id in use.
FailedIndexStepOfUnusedId ==
    \A p \in SeqProcs :
        (Alone("create") /\ pc[p] = "returned" /\ result[p].error = "BackendError"
            /\ ~hist.reused)
            => UnlistedRecordKept(p)

\* A create of an id not in use has thrown the error of its index step, on a
\* store that holds a list of the owner.
FailedIndexStepReached ==
    /\ Alone("create")
    /\ pc[1] = "returned"
    /\ result[1].error = "BackendError"
    /\ ~hist.reused
    /\ IndexOf(kv, hist.ops[1].arg.userId) # << >>

\* C20: delete error cases.  A delete of an id that has no primary key
\* throws NotFoundError and leaves the store as it was.  A delete, none of
\* whose backend calls rejects, of a stored record whose id is not in the list
\* of its owner (or whose owner has no list key) returns, and leaves the store
\* as it was but for the primary key of the id: no list loses an id.
C20_DeleteErrorCases ==
    \A p \in SeqProcs :
        (Alone("delete") /\ pc[p] = "returned") =>
            LET id == hist.ops[1].id
                got == GetById(hist.base, id)
            IN  /\ transcriptionKey(id) \notin DOMAIN hist.base
                      => (result[p].error = "NotFoundError" /\ kv = hist.base)
                /\ ( /\ got.error = ""
                     /\ Occurrences(IndexOf(hist.base, got.value.userId), id) = 0
                     /\ result[p].error # "BackendError" )
                      => /\ result[p].error = ""
                         /\ transcriptionKey(id) \notin DOMAIN kv
                         /\ kv = KvDelete(hist.base, transcriptionKey(id))
                         /\ \A u \in Users : IndexOf(kv, u) = IndexOf(hist.base, u)

\* C20 witness: a delete has returned; the record it removed was not in the
\* list of its owner, which holds another id.
C20_Witness ==
    /\ Alone("delete")
    /\ pc[1] = "returned"
    /\ result[1].error = ""
    /\ LET id == hist.ops[1].id
           got == GetById(hist.base, id)
       IN  /\ got.error = ""
           /\ Occurrences(IndexOf(hist.base, got.value.userId), id) = 0
           /\ IndexOf(hist.base, got.value.userId) # << >>
           /\ IndexOf(kv, got.value.userId) # << >>

\* A delete of an id without a primary key has thrown, on a store that holds
\* a record and a list.
DeleteOfAbsentIdReached ==
    /\ Alone("delete")
    /\ pc[1] = "returned"
    /\ result[1].error = "NotFoundError"
    /\ StoredIds(kv) # {}
    /\ \E u \in Users : IndexOf(kv, u) # << >>

\* The list holds the record.
Contains(list, t) == \E i \in 1..Len(list) : list[i] = t

\* C21: in the Redis-backed service the listing follows the record's
\* lifetime.  Whenever getTranscription(id) returns a record,
\* getUserTranscriptions of the record's userId contains that record.
C21_ListingFollowsLifetime ==
    \A p \in SeqProcs :
        (pc[p] = "returned" /\ result[p].op = "getTranscription"
            /\ result[p].value.found)
            => Contains(GetUserTranscriptions(kv, result[p].value.record.userId),
                        result[p].value.record)

\* The same for the records updateTranscriptionStatus has not written at a
\* time later than their creation.
ListedUntilRefreshed ==
    \A p \in SeqProcs :
        (pc[p] = "returned" /\ result[p].op = "getTranscription"
            /\ result[p].value.found
            /\ result[p].value.record.updatedAt = result[p].value.record.createdAt)
            => Contains(GetUserTranscriptions(kv, result[p].value.record.userId),
                        result[p].value.record)

\* getTranscription has returned a record that updateTranscriptionStatus
\* wrote at the time of its creation, after time has passed.
ListedRecordReached ==
    /\ pc[1] = "returned"
    /\ result[1].op = "getTranscription"
    /\ result[1].value.found
    /\ result[1].value.record.status = "failed"
    /\ result[1].value.record.updatedAt = result[1].value.record.createdAt
    /\ clock > getTime(result[1].value.record.createdAt)

\* Every record listByUser returns for an owner has the owner's userId.
Isolated(store) ==
    \A u \in Users :
        LET list == ListByUser(store, u).value
        IN  \A i \in 1..Len(list) : list[i].userId = u

\* C22: listing owner isolation.  After any sequence of transcribeAudio,
\* update, delete and cleanupExpired calls, run one after the other for
\* several owners, every record listByUser(u) returns has userId u: no record
\* of an owner is returned by listByUser of another.
C22_ListingOwnerIsolation == AllIdle => Isolated(kv)

\* No step of a call takes the store out of isolation, unless generateId has
\* returned an id in use.
IsolationKeptWithoutReuse ==
    [][(Isolated(kv) /\ ~hist'.reused) => Isolated(kv')]_vars

\* Two owners each have a record listed, and one record has been updated
\* with a patch that names another owner.
IsolatedOwnersReached ==
    /\ AllIdle
    /\ Isolated(kv)
    /\ \A u \in Users : Len(ListByUser(kv, u).value) = 1
    /\ \E u \in Users : ListByUser(kv, u).value[1].status = "failed"

====
